---- MODULE Spec2Model ----
(***************************************************************************)
(* Model of frappe_manager/site_manager/site.py (class Bench): the bench   *)
(* lifecycle and reconciliation logic.  The three compose projects of a    *)
(* bench (primary "bench", "workers", "admin_tools") are the environment;  *)
(* every method of Bench is an operator over a world record `w`, and the   *)
(* actions apply the methods to the current state.                         *)
(***************************************************************************)
EXTENDS Integers, Sequences, FiniteSets, TLC

VARIABLES
    admin_tools,    \* self.bench_config.admin_tools
    dir,            \* self.path.exists()
    exists,         \* compose_file_manager.exists() of each compose project
    status,         \* state of every service of each compose project
    secrets,        \* the bench descriptor on disk still carries its secrets
    quiet,          \* self.quiet (not verbose)
    site_conf,      \* the worker configuration the site-builder generates now
    supervisor_conf,\* the generated worker supervisor configuration on disk
    workers_compose,\* the worker configuration the workers descriptor was made from
    ssl,            \* self.bench_config.ssl.ssl_type
    has_cert,       \* self.certificate_manager.has_certificate()
    certificate,    \* ssl_type of the certificate the certificate manager holds
    db,             \* the bench's database, its user, and the site's db info
    probe,          \* the readiness probe: budget, attempts, delays, result
    caught,         \* the exception create() caught
    failed,         \* the step of create() that raised it
    steps,          \* the steps of create() entered so far
    log,            \* calls issued to the collaborators by the operation run
    exc,            \* exception that left the operation ("none" when it returned)
    op,             \* the operation that produced this state
    args,           \* the arguments the operation was called with
    pre,            \* the environment the operation was entered with
    passes,         \* consecutive reconciliation passes, all but the last effective
    prevLog,        \* calls issued by the operation before this one
    pc              \* position inside a multi-step operation

vars == <<admin_tools, dir, exists, status, secrets, quiet, site_conf,
          supervisor_conf, workers_compose, ssl, has_cert, certificate, db,
          probe, caught, failed, steps, log, exc, op, args, pre, passes,
          prevLog, pc>>

\* ---------------------------------------------------------------- bounds
MaxPasses == 2
MaxRetry == 5

\* ------------------------------------------------------------ environment
Groups == {"bench", "workers", "admin_tools"}

Services == [bench       |-> {"frappe", "nginx"},
             workers     |-> {"worker"},
             admin_tools |-> {"mailhog", "adminer"}]

States == {"running", "exited"}

\* worker configurations; "none": the file does not exist
Confs == {"a", "b"}

\* lines of the frappe service's log stream, by what they contain
Sentinel == "INFO supervisord started with pid"

Line(source, has) == [source |-> source, has |-> has]

PlainLine == Line("stdout", {"text"})
SentinelLine == Line("stdout", {Sentinel})

\* a stream: the lines it delivers, and whether it ends after them (a stream
\* that stays open without a further line blocks its reader)
SentinelStream == [lines |-> <<PlainLine, SentinelLine>>, open |-> TRUE]
EndedStream == [lines |-> <<PlainLine>>, open |-> FALSE]
SilentStream == [lines |-> <<PlainLine>>, open |-> TRUE]

Streams == {SentinelStream, EndedStream, SilentStream}

NoArgs == [workers_check |-> FALSE, admin_tools_check |-> FALSE, via |-> "none",
           is_template_bench |-> FALSE]

NoProbe == [retry |-> 0, attempts |-> 0, sleeps |-> 0, oks |-> 0,
            last |-> "none", result |-> "none"]

\* ComposeProject.get_services_running_status(): mapping service -> state
get_services_running_status(w, g) == w.status[g]

\* ComposeProject.running: every service of the project is running
running(w, g) ==
    LET running_status == get_services_running_status(w, g)
    IN  \A service \in Services[g] : running_status[service] = "running"

Env == [admin_tools |-> admin_tools, dir |-> dir, exists |-> exists,
        status |-> status, secrets |-> secrets, quiet |-> quiet,
        site_conf |-> site_conf, supervisor_conf |-> supervisor_conf,
        workers_compose |-> workers_compose, ssl |-> ssl,
        has_cert |-> has_cert, certificate |-> certificate, db |-> db]

\* The world an operation runs in: the environment, the calls issued so far
\* and the number of the fallible call that is going to raise (0: none).
World(l, f) == [admin_tools |-> admin_tools, dir |-> dir, exists |-> exists,
                status |-> status, secrets |-> secrets, quiet |-> quiet,
                site_conf |-> site_conf, supervisor_conf |-> supervisor_conf,
                workers_compose |-> workers_compose, ssl |-> ssl,
                has_cert |-> has_cert, certificate |-> certificate, db |-> db,
                log |-> l, exc |-> "none", ret |-> TRUE, failAt |-> f,
                stream |-> SentinelStream, answer |-> "no", rm |-> "ok",
                frappe_image |-> TRUE]

Call(w, o, target, arg) ==
    [w EXCEPT !.log = Append(@, [op |-> o, target |-> target, arg |-> arg])]

\* A call into a collaborator that may raise exception e.
Try(w, o, target, arg, e) ==
    LET c == Call(w, o, target, arg)
    IN  IF w.failAt = 1
        THEN [c EXCEPT !.exc = e, !.failAt = 0]
        ELSE [c EXCEPT !.failAt = IF @ = 0 THEN 0 ELSE @ - 1]

Raised(w) == w.exc # "none"

AllServices(g, s) == [service \in Services[g] |-> s]

\* ComposeProject.start_service(force_recreate=...)
start_service(w, g, arg) ==
    LET c == Try(w, "start", g, arg, "DockerException")
    IN  IF Raised(c) THEN c
        ELSE [c EXCEPT !.status[g] = AllServices(g, "running")]

\* AdminTools.enable(): brings the admin-tools project up
admin_tools_enable(w, arg) ==
    LET c == Try(w, "enable", "admin_tools", arg, "DockerException")
    IN  IF Raised(c) THEN c
        ELSE [c EXCEPT !.status["admin_tools"] = AllServices("admin_tools", "running")]

\* AdminTools.disable(): brings the admin-tools project down
admin_tools_disable(w) ==
    LET c == Try(w, "disable", "admin_tools", "", "DockerException")
    IN  IF Raised(c) THEN c
        ELSE [c EXCEPT !.status["admin_tools"] = AllServices("admin_tools", "exited")]

\* -------------------------------------------------------- reconciliation
\* variant: the workers are started without looking at the primary group
ensure_workers_ignoring_primary(w0) ==
    LET w  == Call(w0, "check", "workers", "")
        w1 == Call(w, "exists?", "workers", "")
        w2 == Call(w1, "running?", "workers", "")
    IN  IF ~w.exists["workers"] THEN w1
        ELSE IF running(w, "workers") THEN w2
        ELSE start_service(w2, "workers", "default")

\* variant: the workers are started although they already run
ensure_workers_ignoring_workers(w0) ==
    LET w  == Call(w0, "check", "workers", "")
        w1 == Call(w, "exists?", "workers", "")
        w3 == Call(w1, "running?", "bench", "")
    IN  IF ~w.exists["workers"] THEN w1
        ELSE IF ~running(w, "bench") THEN w3
        ELSE start_service(w3, "workers", "default")

ensure_workers_running_if_available(w0) ==
    LET w  == Call(w0, "check", "workers", "")
        w1 == Call(w, "exists?", "workers", "")
        w2 == Call(w1, "running?", "workers", "")
        w3 == Call(w2, "running?", "bench", "")
    IN  IF ~w.exists["workers"] THEN w1
        ELSE IF running(w, "workers") THEN w2
        ELSE IF ~running(w, "bench") THEN w3
        ELSE start_service(w3, "workers", "default")

\* variant: the admin tools are enabled without looking at the primary group
ensure_admin_tools_ignoring_primary(w0) ==
    LET w  == Call(w0, "check", "admin_tools", "")
        w1 == Call(w, "exists?", "admin_tools", "")
        w2 == Call(w1, "running?", "admin_tools", "")
        w4 == Call(w1, "status?", "admin_tools", "")
    IN  IF ~w.exists["admin_tools"] THEN w1
        ELSE IF w.admin_tools
             THEN IF running(w, "admin_tools") THEN w2
                  ELSE admin_tools_enable(w2, "default")
             ELSE w4

ensure_admin_tools_running_if_available(w0) ==
    LET w  == Call(w0, "check", "admin_tools", "")
        w1 == Call(w, "exists?", "admin_tools", "")
        w2 == Call(w1, "running?", "admin_tools", "")
        w3 == Call(w2, "running?", "bench", "")
        w4 == Call(w1, "status?", "admin_tools", "")
        running_services == get_services_running_status(w, "admin_tools")
        \* `for service in running_services` walks the keys of the mapping
        atleast_one_service_running ==
            \E service \in DOMAIN running_services : service = "running"
    IN  IF ~w.exists["admin_tools"] THEN w1
        ELSE IF w.admin_tools
             THEN IF running(w, "admin_tools") THEN w2
                  ELSE IF ~running(w, "bench") THEN w3
                  ELSE admin_tools_enable(w3, "default")
             ELSE IF atleast_one_service_running
                  THEN admin_tools_disable(w4)
                  ELSE w4

\* Bench.__init__
DefaultWorkersCheck == TRUE
DefaultAdminToolsCheck == TRUE

\* variant: the constructor runs both checks whatever its flags say
Bench_init_ignoring_flags(w, workers_check, admin_tools_check) ==
    LET w1 == ensure_workers_running_if_available(w)
    IN  IF Raised(w1) THEN w1 ELSE ensure_admin_tools_running_if_available(w1)

Bench_init(w, workers_check, admin_tools_check) ==
    LET w1 == IF workers_check THEN ensure_workers_running_if_available(w) ELSE w
    IN  IF admin_tools_check /\ ~Raised(w1)
        THEN ensure_admin_tools_running_if_available(w1)
        ELSE w1

\* Bench.get_object
GetObjectWorkersCheck == FALSE
GetObjectAdminToolsCheck == FALSE

get_object(w, workers_check, admin_tools_check) ==
    LET w1 == Try(w, "import_from_toml", "bench_config", "", "Exception")
    IN  IF Raised(w1) THEN w1
        ELSE Bench_init(w1, workers_check, admin_tools_check)

\* ------------------------------------------------------ start, stop, logs
ForceArg(force) == IF force THEN "force_recreate=True" ELSE "force_recreate=False"

\* ComposeProject.stop_service(services=...)
stop_service(w, g, services, arg) ==
    LET c == Try(w, "stop", g, arg, "DockerException")
    IN  IF Raised(c) THEN c
        ELSE [c EXCEPT !.status[g] =
                 [service \in Services[g] |->
                     IF service \in services THEN "exited" ELSE @[service]]]

\* str.lower() on the substrings a line is made of
Lower == [s \in {"text", "Updating files:", "[==", Sentinel,
                 "INFO SUPERVISORD STARTED WITH PID"} |->
             CASE s = "Updating files:" -> "updating files:"
               [] s = Sentinel -> "info supervisord started with pid"
               [] s = "INFO SUPERVISORD STARTED WITH PID" -> "info supervisord started with pid"
               [] OTHER -> s]

\* `sub.lower() in line.lower()`
ContainsLower(line, sub) == \E h \in line.has : Lower[h] = Lower[sub]

\* richprint.live_lines(output, stop_string=...): stops at the stop string
live_lines_stops(line) == ContainsLower(line, Sentinel)

\* the loop body of the verbose branch: TRUE when the line makes it `break`
verbose_stops(line) ==
    /\ line.source # "exit_code"
    /\ ~ContainsLower(line, "Updating files:")
    /\ ~ContainsLower(line, "[==")
    /\ ContainsLower(line, Sentinel)

RECURSIVE read_until_stop(_, _, _)
read_until_stop(lines, i, q) ==
    IF i > Len(lines) THEN [consumed |-> Len(lines), stopped |-> FALSE]
    ELSE IF (IF q THEN live_lines_stops(lines[i]) ELSE verbose_stops(lines[i]))
         THEN [consumed |-> i, stopped |-> TRUE]
         ELSE read_until_stop(lines, i + 1, q)

frappe_logs_till_start(w) ==
    LET r == read_until_stop(w.stream.lines, 1, w.quiet)
        outcome == IF r.stopped THEN "stopped"
                   ELSE IF w.stream.open THEN "blocked" ELSE "ended"
        c == Try(w, "logs", "frappe", outcome, "DockerException")
    IN  IF Raised(c) THEN c
        ELSE IF outcome = "blocked" THEN [c EXCEPT !.exc = "blocked"]
        ELSE c

\* ---------------------------------------------------- worker configuration
\* BenchWorkers.is_expected_worker_same_as_template()
is_expected_worker_same_as_template(w) ==
    w.exists["workers"] /\ w.supervisor_conf = w.workers_compose

\* BenchWorkers.generate_compose()
workers_generate_compose(w) ==
    LET c == Try(w, "generate_compose", "workers", "", "Exception")
    IN  IF Raised(c) THEN c
        ELSE [c EXCEPT !.workers_compose = w.supervisor_conf,
                       !.exists["workers"] = TRUE]

\* docker.compose.exec(service="frappe", ...): docker refuses the command
\* when the frappe container does not run, and may fail when it does
\* the snapshots backup_workers_supervisor_conf takes, in the order it takes
\* them: supervisor.conf, then the split *.fm.supervisor.conf files
Taken(w) ==
    IF w.supervisor_conf = "none" THEN << "supervisor.conf" >>
    ELSE << "supervisor.conf", "fm.supervisor.conf" >>

\* BackupManager.backups: the BackupSet, held newest snapshot first
backups(w) == [i \in 1..Len(Taken(w)) |-> Taken(w)[Len(Taken(w)) + 1 - i]]

\* BackupManager.restore(backup, force=True) for each snapshot of s in turn
RECURSIVE restore_each(_, _)
restore_each(w, s) ==
    IF s = <<>> \/ Raised(w) THEN w
    ELSE restore_each(Try(w, "restore", Head(s), "force=True", "Exception"), Tail(s))

\* variant: the BackupSet is gone through from its far end
backup_restore_workers_supervisor_reversed(w, backup_manager) ==
    restore_each(Call(w, "print", "workers", "Rolling back to previous workers configuration."),
                 [i \in 1..Len(backup_manager) |->
                     backup_manager[Len(backup_manager) + 1 - i]])

backup_restore_workers_supervisor(w, backup_manager) ==
    restore_each(Call(w, "print", "workers", "Rolling back to previous workers configuration."),
                 backup_manager)

compose_exec(w, arg) ==
    IF w.status["bench"]["frappe"] = "running"
    THEN Try(w, "exec", "frappe", arg, "DockerException")
    ELSE [Call(w, "exec", "frappe", arg) EXCEPT !.exc = "DockerException"]

backup_workers_supervisor_conf(w) ==
    LET w1 == Try(w, "backup", "supervisor.conf", "", "Exception")
    IN  IF Raised(w1) \/ w.supervisor_conf = "none" THEN w1
        ELSE Try(w1, "backup", "fm.supervisor.conf", "", "Exception")

\* variant: the snapshot is taken after the regeneration commands have run
regenerate_workers_supervisor_conf_backup_last(w) ==
    LET w2 == compose_exec(w, "bench setup supervisor")
        w3 == compose_exec(w2, "divide-supervisor-conf")
        w4 == backup_workers_supervisor_conf(w3)
        Generate(x) == [x EXCEPT !.exc = "BenchWorkersSupervisorConfigurtionGenerateError"]
    IN  IF Raised(w2) THEN Generate(w2)
        ELSE IF Raised(w3) THEN Generate(w3)
        ELSE IF Raised(w4) THEN w4
        ELSE [w4 EXCEPT !.supervisor_conf = w.site_conf]

regenerate_workers_supervisor_conf(w) ==
    LET w1 == backup_workers_supervisor_conf(w)
        w2 == compose_exec(w1, "bench setup supervisor")
        w3 == compose_exec(w2, "divide-supervisor-conf")
        Generate(x) == [x EXCEPT !.exc = "BenchWorkersSupervisorConfigurtionGenerateError"]
    IN  IF Raised(w1) THEN w1
        ELSE IF Raised(w2) THEN Generate(w2)
        ELSE IF Raised(w3) THEN Generate(w3)
        ELSE [w3 EXCEPT !.supervisor_conf = w.site_conf]

\* variant: the comparison with the materialized configuration is left out
sync_workers_compose_always_restarting(w, force_recreate) ==
    LET w1 == regenerate_workers_supervisor_conf(w)
        w2 == workers_generate_compose(w1)
    IN  IF Raised(w1) THEN w1
        ELSE IF Raised(w2) THEN w2
        ELSE start_service(w2, "workers", ForceArg(force_recreate))

\* variant: a failed regeneration is passed over
sync_workers_compose_ignoring_failure(w, force_recreate) ==
    LET w1 == [regenerate_workers_supervisor_conf(w) EXCEPT !.exc = "none"]
        w2 == workers_generate_compose(w1)
    IN  IF is_expected_worker_same_as_template(w1)
        THEN Call(w1, "print", "workers", "Workers configuration remains unchanged.")
        ELSE IF Raised(w2) THEN w2
        ELSE start_service(w2, "workers", ForceArg(force_recreate))

\* variant: the workers are started without regard to force_recreate
sync_workers_compose_never_forcing(w, force_recreate) ==
    LET w1 == regenerate_workers_supervisor_conf(w)
        w2 == workers_generate_compose(w1)
    IN  IF Raised(w1) THEN w1
        ELSE IF is_expected_worker_same_as_template(w1)
             THEN Call(w1, "print", "workers", "Workers configuration remains unchanged.")
        ELSE IF Raised(w2) THEN w2
        ELSE start_service(w2, "workers", ForceArg(FALSE))

sync_workers_compose(w, force_recreate) ==
    LET w1 == regenerate_workers_supervisor_conf(w)
        w2 == workers_generate_compose(w1)
    IN  IF Raised(w1) THEN w1
        ELSE IF is_expected_worker_same_as_template(w1)
             THEN Call(w1, "print", "workers", "Workers configuration remains unchanged.")
        ELSE IF Raised(w2) THEN w2
        ELSE start_service(w2, "workers", ForceArg(force_recreate))

\* ------------------------------------------------------------ Bench.start
start(w, force) ==
    LET w1 == Try(w, "sync_bench_common_site_config", "bench", "", "BenchException")
        w2 == start_service(w1, "bench", ForceArg(force))
        w3 == IF w2.exists["workers"]
              THEN start_service(w2, "workers", ForceArg(force)) ELSE w2
        w4 == IF w3.exists["admin_tools"]
              THEN start_service(w3, "admin_tools", ForceArg(force)) ELSE w3
        w5 == frappe_logs_till_start(w4)
    IN  IF Raised(w1) THEN w1
        ELSE IF Raised(w2) THEN w2
        ELSE IF Raised(w3) THEN w3
        ELSE IF Raised(w4) THEN w4
        ELSE IF Raised(w5) THEN w5
        ELSE sync_workers_compose(w5, FALSE)

\* ------------------------------------------- Bench.remove_attached_secrets
\* Bench.stop
stop(w) ==
    LET w1 == stop_service(w, "bench", Services["bench"], "all")
        w2 == IF w1.exists["workers"]
              THEN stop_service(w1, "workers", Services["workers"], "all") ELSE w1
        w3 == IF w2.exists["admin_tools"]
              THEN stop_service(w2, "admin_tools", Services["admin_tools"], "all") ELSE w2
    IN  IF Raised(w1) THEN w1
        ELSE IF Raised(w2) THEN w2
        ELSE w3

Liveness(w) == IF running(w, "bench") THEN "running" ELSE "not running"

\* remove_secrets_from_container, remove_root_secrets_compose and then
\* compose_file_manager.write_to_file(); the write records whether the
\* primary group was running when it was made
write_without_secrets(w) ==
    LET w1 == Call(w, "remove_secrets_from_container", "bench", "frappe")
        c  == Try(w1, "write_to_file", "bench", Liveness(w), "Exception")
    IN  IF Raised(c) THEN c ELSE [c EXCEPT !.secrets = FALSE]

\* variant: the descriptor is rewritten first and the groups bounced afterwards
remove_attached_secrets_write_first(w) ==
    LET was_running == running(w, "bench")
        w1 == write_without_secrets(w)
        w2 == stop_service(w1, "bench", {"frappe"}, "frappe")
        w3 == IF Raised(w2) \/ ~w2.exists["workers"] THEN w2
              ELSE stop_service(w2, "workers", Services["workers"], "all")
        w5 == start(w3, FALSE)
    IN  IF Raised(w1) \/ ~was_running THEN w1
        ELSE IF Raised(w3) THEN w3
        ELSE IF Raised(w5) THEN w5
        ELSE frappe_logs_till_start(w5)

remove_attached_secrets(w) ==
    LET was_running == running(w, "bench")
        w1 == stop_service(w, "bench", {"frappe"}, "frappe")
        w2 == IF Raised(w1) \/ ~w1.exists["workers"] THEN w1
              ELSE stop_service(w1, "workers", Services["workers"], "all")
        w3 == IF was_running THEN w2 ELSE w
        w4 == write_without_secrets(w3)
        w5 == start(w4, FALSE)
    IN  IF Raised(w3) THEN w3
        ELSE IF Raised(w4) \/ ~was_running THEN w4
        ELSE IF Raised(w5) THEN w5
        ELSE frappe_logs_till_start(w5)

\* ---------------------------------------------------------------- actions
Commit(w) ==
    /\ admin_tools' = w.admin_tools
    /\ dir' = w.dir
    /\ exists' = w.exists
    /\ status' = w.status
    /\ secrets' = w.secrets
    /\ quiet' = w.quiet
    /\ site_conf' = w.site_conf
    /\ supervisor_conf' = w.supervisor_conf
    /\ workers_compose' = w.workers_compose
    /\ ssl' = w.ssl
    /\ has_cert' = w.has_cert
    /\ certificate' = w.certificate
    /\ db' = w.db
    /\ log' = w.log
    /\ exc' = w.exc

EnvInit ==
    /\ admin_tools \in BOOLEAN
    /\ exists \in [Groups -> BOOLEAN]
    /\ status \in [bench : [Services["bench"] -> States],
                   workers : [Services["workers"] -> States],
                   admin_tools : [Services["admin_tools"] -> States]]
    \* no container runs for a project whose descriptor was never written
    /\ \A g \in Groups : ~exists[g] => status[g] = AllServices(g, "exited")
    /\ log = <<>>
    /\ exc = "none"
    /\ op = "none"
    /\ args = NoArgs
    /\ passes = 0
    /\ prevLog = <<>>
    /\ probe = NoProbe
    /\ caught = "none"
    /\ failed = "none"
    /\ steps = <<>>

\* a bench without a certificate, with its database in place
CertInit ==
    /\ ssl = "none"
    /\ has_cert = FALSE
    /\ certificate = ssl
    /\ db = [info |-> TRUE, name |-> TRUE, user |-> TRUE]

\* both checks were asked for and the pass was entered
FullPass(wc, ac, w) ==
    wc /\ ac /\ \E i \in 1..Len(w.log) : w.log[i].op = "check"

Construct(via, wc, ac, w) ==
    /\ Commit(w)
    /\ op' = "construct"
    /\ args' = [workers_check |-> wc, admin_tools_check |-> ac, via |-> via,
                 is_template_bench |-> FALSE]
    /\ pre' = Env
    /\ passes' = IF ~FullPass(wc, ac, w) THEN 0
                 ELSE IF passes >= 1 /\ exc = "none"
                      THEN (IF passes < MaxPasses THEN passes + 1 ELSE passes)
                      ELSE 1
    /\ prevLog' = log
    /\ UNCHANGED <<pc, probe, caught, failed, steps>>

\* Bench(...) with explicit check flags
BenchInit ==
    \E wc \in BOOLEAN, ac \in BOOLEAN, f \in 0..2 :
        Construct("init", wc, ac, Bench_init(World(<<>>, f), wc, ac))

\* Bench(...) leaving the check flags to their defaults
BenchInitDefault ==
    \E f \in 0..2 :
        Construct("init_default", DefaultWorkersCheck, DefaultAdminToolsCheck,
                  Bench_init(World(<<>>, f), DefaultWorkersCheck, DefaultAdminToolsCheck))

\* Bench.get_object(...) with explicit check flags
GetObject ==
    \E wc \in BOOLEAN, ac \in BOOLEAN, f \in 0..3 :
        Construct("get_object", wc, ac, get_object(World(<<>>, f), wc, ac))

\* Bench.get_object(...) leaving the check flags to their defaults
GetObjectDefault ==
    \E f \in 0..3 :
        Construct("get_object_default", GetObjectWorkersCheck, GetObjectAdminToolsCheck,
                  get_object(World(<<>>, f), GetObjectWorkersCheck, GetObjectAdminToolsCheck))

EnsureWorkers ==
    \E f \in 0..1 :
        /\ Commit(ensure_workers_running_if_available(World(<<>>, f)))
        /\ op' = "ensure_workers_running_if_available"
        /\ args' = NoArgs
        /\ pre' = Env
        /\ passes' = 0
        /\ prevLog' = log
        /\ UNCHANGED <<pc, probe, caught, failed, steps>>

EnsureAdminTools ==
    \E f \in 0..1 :
        /\ Commit(ensure_admin_tools_running_if_available(World(<<>>, f)))
        /\ op' = "ensure_admin_tools_running_if_available"
        /\ args' = NoArgs
        /\ pre' = Env
        /\ passes' = 0
        /\ prevLog' = log
        /\ UNCHANGED <<pc, probe, caught, failed, steps>>

ReconcileInit ==
    /\ EnvInit
    /\ dir = TRUE
    /\ secrets = FALSE
    /\ quiet = TRUE
    /\ site_conf = "a"
    /\ supervisor_conf = "none"
    /\ workers_compose = IF exists["workers"] THEN "a" ELSE "none"
    /\ CertInit
    /\ pc = "idle"
    /\ pre = Env

ReconcileNext ==
    \/ BenchInit
    \/ BenchInitDefault
    \/ GetObject
    \/ GetObjectDefault
    \/ EnsureWorkers
    \/ EnsureAdminTools

SpecReconcile == ReconcileInit /\ [][ReconcileNext]_vars

\* ------------------------------------------- certificate, config, info
\* self.bench_config.export_to_toml(...)
save_bench_config(w) == Try(w, "export_to_toml", "bench_config", w.ssl, "Exception")

\* SSLCertificateManager.generate_certificate(): issues the certificate the
\* manager holds (the one it was constructed with, or the one given to
\* set_certificate since); nothing is issued for the type none
generate_certificate(w) ==
    LET c == Try(w, "generate_certificate", "certificate_manager", w.certificate,
                 "Exception")
    IN  IF Raised(c) \/ w.certificate = "none" THEN c
        ELSE [c EXCEPT !.has_cert = TRUE]

create_certificate(w) ==
    LET w1 == generate_certificate(w)
    IN  IF Raised(w1) THEN w1 ELSE save_bench_config(w1)

\* variant: the certificate is revoked and bench_config.ssl is left as it was
remove_certificate_keeping_ssl(w) ==
    LET w1 == Try(w, "remove_certificate", "certificate_manager", "", "Exception")
        w2 == [w1 EXCEPT !.has_cert = FALSE]
    IN  IF Raised(w1) THEN w1 ELSE save_bench_config(w2)

remove_certificate(w) ==
    LET w1 == Try(w, "remove_certificate", "certificate_manager", "", "Exception")
        w2 == [w1 EXCEPT !.has_cert = FALSE, !.ssl = "none"]
    IN  IF Raised(w1) THEN w1 ELSE save_bench_config(w2)

\* AdminTools.generate_compose(db_host)
has_certificate(w) == w.has_cert

\* SSLCertificateManager.set_certificate(certificate)
set_certificate(w, certificate_type) ==
    [Call(w, "set_certificate", "certificate_manager", certificate_type)
        EXCEPT !.certificate = certificate_type]

\* SUPPORTED_SSL_TYPES
SslTypes == {"none", "le"}

\* variant: an issue request is not checked against has_certificate()
update_certificate_unchecked(w, certificate_type) ==
    IF certificate_type = "le"
    THEN create_certificate([set_certificate(w, certificate_type)
                                EXCEPT !.ssl = certificate_type])
    ELSE IF has_certificate(w) THEN remove_certificate(w)
    ELSE [w EXCEPT !.exc = "BenchSSLCertificateNotIssued"]

\* variant: the requested certificate is not handed to the certificate manager
update_certificate_without_set(w, certificate_type) ==
    IF certificate_type = "le"
    THEN IF has_certificate(w)
         THEN [w EXCEPT !.exc = "BenchSSLCertificateAlreadyIssued"]
         ELSE create_certificate([w EXCEPT !.ssl = certificate_type])
    ELSE IF has_certificate(w) THEN remove_certificate(w)
    ELSE [w EXCEPT !.exc = "BenchSSLCertificateNotIssued"]

update_certificate(w, certificate_type) ==
    IF certificate_type = "le"
    THEN IF has_certificate(w)
         THEN [w EXCEPT !.exc = "BenchSSLCertificateAlreadyIssued"]
         ELSE create_certificate([set_certificate(w, certificate_type)
                                     EXCEPT !.ssl = certificate_type])
    ELSE IF has_certificate(w) THEN remove_certificate(w)
    ELSE [w EXCEPT !.exc = "BenchSSLCertificateNotIssued"]

\* ComposeProject.is_service_running(service)
is_service_running(w, g, service) ==
    get_services_running_status(w, g)[service] = "running"

\* variant: the certificate is looked for before the nginx service
renew_certificate_certificate_first(w) ==
    IF ~has_certificate(w)
    THEN [w EXCEPT !.exc = "BenchSSLCertificateNotIssued"]
    ELSE IF ~is_service_running(w, "bench", "nginx")
    THEN [w EXCEPT !.exc = "BenchServiceNotRunning"]
    ELSE Try(w, "renew_certificate", "certificate_manager", "", "Exception")

renew_certificate(w) ==
    IF ~is_service_running(w, "bench", "nginx")
    THEN [w EXCEPT !.exc = "BenchServiceNotRunning"]
    ELSE IF ~has_certificate(w)
    THEN [w EXCEPT !.exc = "BenchSSLCertificateNotIssued"]
    ELSE Try(w, "renew_certificate", "certificate_manager", "", "Exception")

admin_tools_generate_compose(w) ==
    LET c == Try(w, "generate_compose", "admin_tools", "", "Exception")
    IN  IF Raised(c) THEN c ELSE [c EXCEPT !.exists["admin_tools"] = TRUE]

sync_admin_tools_compose(w) ==
    LET w1 == admin_tools_generate_compose(w)
    IN  IF Raised(w1) THEN w1
        ELSE admin_tools_enable(w1, "force_recreate_container=True")

restart_frappe_server(w) ==
    LET c == compose_exec(w, "supervisorctl restart all")
    IN  IF Raised(c) THEN [c EXCEPT !.exc = "BenchException"]
        ELSE Call(c, "print", "bench", "Restarted frappe server.")

\* get_bench_db_connection_info(name, path), then `bench_db_info["name"]`
info(w) ==
    LET w0 == Call(w, "info", "bench", "")
        w1 == Try(w0, "get_db_connection_info", "bench", "", "Exception")
        w2 == Call(Call(w1, "status?", "bench", ""), "status?", "workers", "")
    IN  IF Raised(w1) THEN w1
        ELSE IF ~w1.db.info THEN [w1 EXCEPT !.exc = "KeyError"]
        ELSE Call(w2, "print", "info",
                  IF w.admin_tools THEN "Admin Tools: Mailhog, Adminer"
                                   ELSE "Admin Tools: Not Enabled")

\* ------------------------------------------------------------- removal
remove_database_and_user(w) ==
    LET w1 == Try(w, "get_db_connection_info", "bench", "", "Exception")
        w2 == IF ~w1.db.name
              THEN Call(w1, "warning", "db", "not found. Skipping...")
              ELSE LET c == Try(w1, "remove_db", "db", "", "Exception")
                   IN  IF Raised(c) THEN c ELSE [c EXCEPT !.db.name = FALSE]
        w3 == IF ~w2.db.user
              THEN Call(w2, "warning", "db_user", "not found. Skipping...")
              ELSE LET c == Try(w2, "remove_user", "db_user", "remove_all_host=True", "Exception")
                   IN  IF Raised(c) THEN c ELSE [c EXCEPT !.db.user = FALSE]
    IN  IF Raised(w1) \/ ~w1.db.info THEN w1
        ELSE IF Raised(w2) THEN w2
        ELSE w3

\* ComposeProject.down_service(remove_ophans=True, volumes=True)
down_service(w, g) ==
    LET c == Try(w, "down", g, "remove_ophans=True, volumes=True", "DockerException")
    IN  IF Raised(c) THEN c
        ELSE [c EXCEPT !.status[g] = AllServices(g, "exited")]

\* tear one compose project down when its descriptor exists, warn otherwise
\* variant: the tear-down is issued without looking for the descriptor
down_if_exists_unguarded(w, g) ==
    IF Raised(w) THEN w ELSE down_service(w, g)

down_if_exists(w, g) ==
    IF Raised(w) THEN w
    ELSE IF w.exists[g] THEN down_service(w, g)
    ELSE Call(w, "warning", g, "compose file not found. Skipping containers removal.")

\* shutil.rmtree(self.path) went through
Deleted(w) ==
    [w EXCEPT !.dir = FALSE,
              !.exists = [g \in Groups |-> FALSE],
              !.secrets = FALSE,
              !.supervisor_conf = "none",
              !.workers_compose = "none",
              !.db.info = FALSE]

remove_containers_and_dirs(w) ==
    LET w1 == down_if_exists(w, "bench")
        w2 == down_if_exists(w1, "workers")
        w3 == down_if_exists(w2, "admin_tools")
        w4 == Call(w3, "rmtree", "path", w.rm)
        Removed(x) == Call(x, "print", "path", "Removed all bench files and directories.")
        GiveUp(x) == [x EXCEPT !.exc = "BenchRemoveDirectoryError"]
        \* the recovery after a PermissionError
        r1 == Try(w4, "get_all_images", "bench", "", "Exception")
        r2 == Try(r1, "run", "docker", "chown -R frappe:frappe .", "DockerException")
        r3 == Try(r2, "rmtree", "path", "retry", "Exception")
    IN  IF Raised(w3) THEN w3
        ELSE IF w.rm = "ok" THEN Removed(Deleted(w4))
        ELSE IF w.rm = "OSError" THEN [w4 EXCEPT !.exc = "OSError"]
        ELSE IF Raised(r1) THEN GiveUp(r1)
        ELSE IF ~w.frappe_image THEN Removed(r1)
        ELSE IF Raised(r2) THEN GiveUp(r2)
        ELSE IF Raised(r3) THEN GiveUp(r3)
        ELSE Removed(Deleted(r3))

\* variant: the containers are torn down before the database is removed
remove_bench_teardown_first(w, default_choice) ==
    LET w1 == Call(w, "prompt_ask", "remove_bench",
                   IF default_choice THEN "default=no" ELSE "no default")
        w2 == Call(w1, "answer", "remove_bench", w.answer)
        w3 == remove_certificate(w2)
        w4 == IF Raised(w3)
              THEN Call([w3 EXCEPT !.exc = "none"], "warning", "remove_certificate", w3.exc)
              ELSE w3
        w5 == remove_containers_and_dirs(w4)
        w6 == remove_database_and_user(w5)
    IN  IF w.answer = "no" THEN [w2 EXCEPT !.ret = FALSE]
        ELSE IF Raised(w5) THEN w5
        ELSE IF Raised(w6) THEN w6
        ELSE [w6 EXCEPT !.ret = TRUE]

\* variant: the certificate is removed before the answer is looked at
remove_bench_certificate_before_answer(w, default_choice) ==
    LET w1 == Call(w, "prompt_ask", "remove_bench",
                   IF default_choice THEN "default=no" ELSE "no default")
        w2 == Call(w1, "answer", "remove_bench", w.answer)
        w3 == remove_certificate(w2)
        w4 == IF Raised(w3)
              THEN Call([w3 EXCEPT !.exc = "none"], "warning", "remove_certificate", w3.exc)
              ELSE w3
        w5 == remove_database_and_user(w4)
        w6 == remove_containers_and_dirs(w5)
    IN  IF w.answer = "no" THEN [w4 EXCEPT !.ret = FALSE]
        ELSE IF Raised(w5) THEN w5
        ELSE IF Raised(w6) THEN w6
        ELSE [w6 EXCEPT !.ret = TRUE]

remove_bench(w, default_choice) ==
    LET w1 == Call(w, "prompt_ask", "remove_bench",
                   IF default_choice THEN "default=no" ELSE "no default")
        w2 == Call(w1, "answer", "remove_bench", w.answer)
        w3 == remove_certificate(w2)
        w4 == IF Raised(w3)
              THEN Call([w3 EXCEPT !.exc = "none"], "warning", "remove_certificate", w3.exc)
              ELSE w3
        w5 == remove_database_and_user(w4)
        w6 == remove_containers_and_dirs(w5)
    IN  IF w.answer = "no" THEN [w2 EXCEPT !.ret = FALSE]
        ELSE IF Raised(w5) THEN w5
        ELSE IF Raised(w6) THEN w6
        ELSE [w6 EXCEPT !.ret = TRUE]

\* ------------------------------------------------------------ Bench.create
mkdir(w) ==
    LET c == Try(w, "mkdir", "path", "parents=True, exist_ok=True", "OSError")
    IN  IF Raised(c) THEN c ELSE [c EXCEPT !.dir = TRUE]

generate_compose(w) ==
    LET c == Try(Call(w, "generate_compose", "bench", ""),
                 "write_to_file", "bench", Liveness(w), "Exception")
    IN  IF Raised(c) THEN c
        ELSE [c EXCEPT !.exists["bench"] = TRUE, !.secrets = TRUE]

create_compose_dirs(w) ==
    LET w1 == Try(w, "host_run_cp", "workspace", "", "DockerException")
        w2 == Try(w1, "mkdir", "configs", "parents=True, exist_ok=True", "OSError")
        w3 == Try(w2, "host_run_cp", "nginx", "", "DockerException")
    IN  IF Raised(w1) THEN w1
        ELSE IF Raised(w2) THEN w2
        ELSE w3

\* `if not self.is_bench_created(): raise Exception(...)`
Inactive == "Exception: Bench site is inactive or unresponsive."

\* variant: the result of the probe is not looked at
check_bench_created_ignoring_result(w, created) == w

check_bench_created(w, created) ==
    IF ~created THEN [w EXCEPT !.exc = Inactive] ELSE w

\* variant: the admin tools are configured whatever the configuration says
configure_admin_tools_unconditional(w) ==
    LET w1 == sync_admin_tools_compose(w)
        w2 == restart_frappe_server(w1)
        Done(x) == Call(x, "print", "admin_tools", "Cofigured bench admin tools.")
    IN  IF Raised(w1) THEN w1
        ELSE IF Raised(w2) THEN w2
        ELSE Done(w2)

\* `if self.bench_config.admin_tools:` sync_admin_tools_compose, restart
configure_admin_tools(w) ==
    LET w1 == sync_admin_tools_compose(w)
        w2 == restart_frappe_server(w1)
        Done(x) == Call(x, "print", "admin_tools", "Cofigured bench admin tools.")
    IN  IF ~w.admin_tools THEN Done(w)
        ELSE IF Raised(w1) THEN w1
        ELSE IF Raised(w2) THEN w2
        ELSE Done(w2)

\* richprint.exit(...) does not return: it leaves through an exception,
\* which `except Exception` catches, or through SystemExit, which it does not
Exits == {"Exit", "SystemExit"}

template_bench(w, exit) ==
    LET w1 == remove_attached_secrets(w)
    IN  IF Raised(w1) THEN w1
        ELSE [Call(w1, "exit", "create", "Created template bench") EXCEPT !.exc = exit]

\* variant: the removal is offered whether or not the directory exists
create_except_ignoring_exists(w) ==
    LET w1 == Call(w, "error", "create", "There has been some error creating/starting the bench.")
        w2 == remove_bench(w1, FALSE)
    IN  IF Raised(w2) THEN w2
        ELSE IF ~w2.ret THEN info(w2)
        ELSE w2

\* the `except Exception` block of create()
create_except(w) ==
    LET w1 == Call(w, "error", "create", "There has been some error creating/starting the bench.")
        w2 == remove_bench(w1, FALSE)
    IN  IF ~w1.dir THEN w1
        ELSE IF Raised(w2) THEN w2
        ELSE IF ~w2.ret THEN info(w2)
        ELSE w2

\* ------------------------------------------------ Bench.is_bench_created
DefaultRetry == 60

\* what one `curl -I` inside the frappe service comes back with: a response
\* with the line 'HTTP/1.1 200 OK', a response without it, or an exception
Outcomes == {"200", "other", "error"}

\* entering the function with a retry budget: `range(retry)` may be empty
is_bench_created_enter(retry) ==
    [retry |-> retry, attempts |-> 0, sleeps |-> 0, oks |-> 0, last |-> "none",
     result |-> IF retry <= 0 THEN "false" ELSE "pending"]

\* variant: the loop runs once more than the budget
is_bench_created_attempt_once_more(p, outcome) ==
    [retry |-> p.retry,
     attempts |-> p.attempts + 1,
     sleeps |-> IF outcome = "error" THEN p.sleeps + 1 ELSE p.sleeps,
     oks |-> IF outcome = "200" THEN p.oks + 1 ELSE p.oks,
     last |-> outcome,
     result |-> IF outcome = "200" THEN "true"
                ELSE IF p.attempts + 1 > p.retry THEN "false" ELSE "pending"]

\* one iteration of `for _ in range(retry)`: return True on the success
\* line, sleep on an exception, and return False when the range is used up
is_bench_created_attempt(p, outcome) ==
    [retry |-> p.retry,
     attempts |-> p.attempts + 1,
     sleeps |-> IF outcome = "error" THEN p.sleeps + 1 ELSE p.sleeps,
     oks |-> IF outcome = "200" THEN p.oks + 1 ELSE p.oks,
     last |-> outcome,
     result |-> IF outcome = "200" THEN "true"
                ELSE IF p.attempts + 1 >= p.retry THEN "false" ELSE "pending"]

ProbePcs == {"is_bench_created", "create:is_bench_created"}

ProbeAttempt ==
    /\ pc \in ProbePcs
    /\ probe.result = "pending"
    /\ \E outcome \in Outcomes :
          probe' = is_bench_created_attempt(probe, outcome)
    /\ log' = Append(log, [op |-> "exec", target |-> "frappe", arg |-> "curl"])
    /\ UNCHANGED <<admin_tools, dir, exists, status, secrets, quiet, site_conf,
                   supervisor_conf, workers_compose, ssl, has_cert, certificate, db,
                   caught,
                   failed, steps, exc, op, args, pre, passes, prevLog, pc>>

ProbeInit ==
    /\ EnvInit
    /\ \A g \in Groups : exists[g] /\ status[g] = AllServices(g, "running")
    /\ dir = TRUE
    /\ secrets \in BOOLEAN
    /\ quiet \in BOOLEAN
    /\ site_conf = "a"
    /\ supervisor_conf = "a"
    /\ workers_compose = "a"
    /\ CertInit
    /\ pc = "is_bench_created"
    /\ pre = Env

ProbeEnter ==
    /\ pc = "is_bench_created"
    /\ probe = NoProbe
    /\ \E retry \in 0..MaxRetry : probe' = is_bench_created_enter(retry)
    /\ op' = "is_bench_created"
    /\ UNCHANGED <<admin_tools, dir, exists, status, secrets, quiet, site_conf,
                   supervisor_conf, workers_compose, ssl, has_cert, certificate, db,
                   caught,
                   failed, steps, exc, log, args, pre, passes, prevLog, pc>>

ProbeNext == ProbeEnter \/ ProbeAttempt

SpecProbe == ProbeInit /\ [][ProbeNext]_vars

\* ------------------------------------------------- secrets purge, alone
MaxFail == 15

WithStream(w, stream) == [w EXCEPT !.stream = stream]

Run(name, w) ==
    /\ Commit(w)
    /\ op' = name
    /\ args' = NoArgs
    /\ pre' = Env
    /\ passes' = 0
    /\ prevLog' = log

RemoveAttachedSecrets ==
    /\ op = "none"
    /\ \E f \in 0..MaxFail, stream \in Streams :
          Run("remove_attached_secrets",
              remove_attached_secrets(WithStream(World(<<>>, f), stream)))
    /\ UNCHANGED <<pc, probe, caught, failed, steps>>

WorkersInit ==
    /\ site_conf \in Confs
    /\ supervisor_conf \in Confs \cup {"none"}
    /\ workers_compose \in (IF exists["workers"] THEN Confs ELSE {"none"})

SecretsInit ==
    /\ EnvInit
    /\ exists["bench"]
    /\ ~admin_tools
    /\ dir = TRUE
    /\ secrets = TRUE
    /\ quiet \in BOOLEAN
    /\ WorkersInit
    /\ CertInit
    /\ pc = "idle"
    /\ pre = Env

SecretsNext == RemoveAttachedSecrets

SpecSecrets == SecretsInit /\ [][SecretsNext]_vars

\* -------------------------------------------------------- create(), run
\* the statements of the try block, in program order
CreateOrder ==
    << "create:mkdir", "create:generate_compose", "create:create_compose_dirs",
       "create:start_service", "create:frappe_logs_till_start",
       "create:sync_workers_compose", "create:is_bench_created",
       "create:remove_attached_secrets", "create:create_certificate",
       "create:admin_tools", "create:info", "create:save_bench_config", "done" >>

Successor(order, step) ==
    order[(CHOOSE i \in 1..Len(order) : order[i] = step) + 1]

\* variant: the certificate is issued before the site is probed
NextStepCertificateFirst(step) ==
    Successor(<< "create:mkdir", "create:generate_compose",
                 "create:create_compose_dirs", "create:start_service",
                 "create:frappe_logs_till_start", "create:sync_workers_compose",
                 "create:create_certificate", "create:is_bench_created",
                 "create:remove_attached_secrets", "create:admin_tools",
                 "create:info", "create:save_bench_config", "done" >>, step)

NextStep(step) == Successor(CreateOrder, step)

\* exceptions `except Exception` does not catch; "blocked": never returns
Uncaught == {"blocked", "SystemExit"}

Caught(w) == Raised(w) /\ w.exc \notin Uncaught

\* one statement of the try block has run in w
CreateStep(step, w) ==
    \E r \in {w} :
        /\ \E c \in {[r EXCEPT !.exc = IF Caught(r) THEN "none" ELSE @]} : Commit(c)
        /\ pc' = IF Caught(r) THEN "create:except"
                 ELSE IF Raised(r) THEN "left"
                 ELSE NextStep(step)
        /\ caught' = IF Caught(r) THEN r.exc ELSE caught
        /\ failed' = IF Caught(r) THEN step ELSE failed
        /\ UNCHANGED <<op, args, pre, passes, prevLog>>

Enter(step) ==
    /\ pc = step
    /\ steps' = Append(steps, step)
    /\ UNCHANGED probe

CreateMkdir ==
    /\ Enter("create:mkdir")
    /\ \E f \in 0..1 : CreateStep("create:mkdir", mkdir(World(<<>>, f)))

CreateGenerateCompose ==
    /\ Enter("create:generate_compose")
    /\ \E f \in 0..1 :
          CreateStep("create:generate_compose", generate_compose(World(<<>>, f)))

CreateComposeDirs ==
    /\ Enter("create:create_compose_dirs")
    /\ \E f \in 0..3 :
          CreateStep("create:create_compose_dirs", create_compose_dirs(World(<<>>, f)))

CreateTemplate ==
    /\ args.is_template_bench
    /\ pc = "create:start_service"
    /\ steps' = Append(steps, "create:template")
    /\ UNCHANGED probe
    /\ \E f \in 0..MaxFail, stream \in Streams, exit \in Exits :
          CreateStep("create:template",
                     template_bench(WithStream(World(<<>>, f), stream), exit))

CreateStartService ==
    /\ ~args.is_template_bench
    /\ Enter("create:start_service")
    /\ \E f \in 0..1 :
          CreateStep("create:start_service",
                     start_service(World(<<>>, f), "bench", ForceArg(TRUE)))

CreateLogs ==
    /\ Enter("create:frappe_logs_till_start")
    /\ \E f \in 0..1, stream \in Streams :
          CreateStep("create:frappe_logs_till_start",
                     frappe_logs_till_start(WithStream(World(<<>>, f), stream)))

CreateSyncWorkers ==
    /\ Enter("create:sync_workers_compose")
    /\ \E f \in 0..6 :
          CreateStep("create:sync_workers_compose",
                     sync_workers_compose(World(<<>>, f), TRUE))

\* the call self.is_bench_created(), with its default budget
CreateProbeEnter ==
    /\ pc = "create:is_bench_created"
    /\ probe.result = "none"
    /\ steps' = Append(steps, "create:is_bench_created")
    /\ probe' = is_bench_created_enter(DefaultRetry)
    /\ log' = <<>>
    /\ UNCHANGED <<admin_tools, dir, exists, status, secrets, quiet, site_conf,
                   supervisor_conf, workers_compose, ssl, has_cert, certificate, db,
                   caught,
                   failed, exc, op, args, pre, passes, prevLog, pc>>

\* the probe has returned: `if not ...: raise`
CreateProbeVerdict ==
    /\ pc = "create:is_bench_created"
    /\ probe.result \in {"true", "false"}
    /\ probe' = [NoProbe EXCEPT !.retry = probe.retry, !.result = probe.result]
    /\ UNCHANGED steps
    /\ CreateStep("create:is_bench_created",
                  check_bench_created(World(log, 0), probe.result = "true"))

CreateRemoveSecrets ==
    /\ Enter("create:remove_attached_secrets")
    /\ \E f \in 0..MaxFail, stream \in Streams :
          CreateStep("create:remove_attached_secrets",
                     remove_attached_secrets(WithStream(World(<<>>, f), stream)))

CreateCertificate ==
    /\ Enter("create:create_certificate")
    /\ \E f \in 0..2 :
          CreateStep("create:create_certificate", create_certificate(World(<<>>, f)))

CreateAdminTools ==
    /\ Enter("create:admin_tools")
    /\ \E f \in 0..3 :
          CreateStep("create:admin_tools", configure_admin_tools(World(<<>>, f)))

CreateInfo ==
    /\ Enter("create:info")
    /\ \E f \in 0..1 : CreateStep("create:info", info(World(<<>>, f)))

CreateSave ==
    /\ Enter("create:save_bench_config")
    /\ \E f \in 0..1 :
          CreateStep("create:save_bench_config", save_bench_config(World(<<>>, f)))

Answers == {"yes", "no"}
RmOutcomes == {"ok", "PermissionError", "OSError"}

WithOracle(w, answer, rm, frappe_image) ==
    [w EXCEPT !.answer = answer, !.rm = rm, !.frappe_image = frappe_image]

CreateExcept ==
    /\ pc = "create:except"
    /\ \E f \in 0..MaxFail, answer \in Answers, rm \in RmOutcomes,
          frappe_image \in BOOLEAN :
          \E w \in {create_except(WithOracle(World(<<>>, f), answer, rm, frappe_image))} :
              /\ Commit(w)
              /\ pc' = IF Raised(w) THEN "raised" ELSE "handled"
    /\ pre' = Env
    /\ UNCHANGED <<op, args, passes, prevLog, probe, caught, failed, steps>>

\* create() is called on a bench that is new, or whose directory is there
\* already (mkdir tolerates it): empty, or holding a complete running bench
CreateInit ==
    /\ EnvInit
    /\ dir \in BOOLEAN
    /\ \/ \A g \in Groups : ~exists[g]
       \/ /\ dir
          /\ \A g \in Groups : exists[g] /\ status[g] = AllServices(g, "running")
    /\ secrets = (\A g \in Groups : exists[g])
    /\ quiet \in BOOLEAN
    /\ site_conf = "a"
    /\ supervisor_conf = IF exists["workers"] THEN "a" ELSE "none"
    /\ workers_compose = supervisor_conf
    /\ ssl \in {"none", "le"}
    /\ has_cert = FALSE
    /\ certificate = ssl
    /\ db = [info |-> dir, name |-> dir, user |-> dir]
    /\ pc = "create:mkdir"
    /\ pre = Env

CreateStart ==
    /\ op = "none"
    /\ pc = "create:mkdir"
    /\ op' = "create"
    /\ \E t \in BOOLEAN : args' = [NoArgs EXCEPT !.is_template_bench = t]
    /\ UNCHANGED <<admin_tools, dir, exists, status, secrets, quiet, site_conf,
                   supervisor_conf, workers_compose, ssl, has_cert, certificate, db,
                   probe,
                   caught, failed, steps, log, exc, pre, passes, prevLog, pc>>

CreateNext ==
    \/ CreateStart
    \/ (op = "create" /\ CreateMkdir)
    \/ CreateGenerateCompose
    \/ CreateComposeDirs
    \/ CreateTemplate
    \/ CreateStartService
    \/ CreateLogs
    \/ CreateSyncWorkers
    \/ CreateProbeEnter
    \/ ProbeAttempt
    \/ CreateProbeVerdict
    \/ CreateRemoveSecrets
    \/ CreateCertificate
    \/ CreateAdminTools
    \/ CreateInfo
    \/ CreateSave
    \/ CreateExcept

SpecCreate == CreateInit /\ [][CreateNext]_vars

\* ------------------------------------------------------------- log queries
RECURSIVE Count(_, _, _)
Count(l, o, target) ==
    IF l = <<>> THEN 0
    ELSE (IF Head(l).op = o /\ Head(l).target = target THEN 1 ELSE 0)
         + Count(Tail(l), o, target)

Mutating == {"start", "stop", "enable", "disable", "down"}

RECURSIVE FirstIndexFrom(_, _, _, _)
FirstIndexFrom(l, i, o, target) ==
    IF i > Len(l) THEN 0
    ELSE IF l[i].op = o /\ l[i].target = target THEN i
    ELSE FirstIndexFrom(l, i + 1, o, target)

\* position of the first call o on target in l, 0 when there is none
FirstIndex(l, o, target) == FirstIndexFrom(l, 1, o, target)

Before(l, o1, t1, o2, t2) ==
    /\ FirstIndex(l, o1, t1) > 0
    /\ FirstIndex(l, o1, t1) < FirstIndex(l, o2, t2)

NoMutatingCall(l) == \A i \in 1..Len(l) : l[i].op \notin Mutating

PreRunning(g) == running(pre, g)

\* ------------------------------------------------------------------ claims

\* C1: ensure_workers_running_if_available starts the workers group exactly
\* when the workers descriptor exists, the primary group is running and the
\* workers group is not; in every other combination it issues no start, stop,
\* enable or disable call and raises nothing.
C1_Case ==
    pre.exists["workers"] /\ PreRunning("bench") /\ ~PreRunning("workers")

C1_WorkersStartedIffNeeded ==
    op = "ensure_workers_running_if_available" =>
        /\ Count(log, "start", "workers") = (IF C1_Case THEN 1 ELSE 0)
        /\ ~C1_Case => (NoMutatingCall(log) /\ exc = "none")

C1_Witness ==
    /\ op = "ensure_workers_running_if_available"
    /\ C1_Case
    /\ Count(log, "start", "workers") = 1
    /\ running(Env, "workers")

\* C2: with admin_tools false in the bench config and at least one admin-tools
\* service reported "running", ensure_admin_tools_running_if_available issues
\* exactly one admin-tools disable call.
C2_DisableOnDrift ==
    ( /\ op = "ensure_admin_tools_running_if_available"
      /\ ~pre.admin_tools
      /\ \E service \in Services["admin_tools"] :
             get_services_running_status(pre, "admin_tools")[service] = "running" )
    => Count(log, "disable", "admin_tools") = 1

\* C3: with admin_tools true, the admin-tools descriptor present and the
\* admin-tools group not running, ensure_admin_tools_running_if_available
\* issues exactly one enable and no disable when the primary group is
\* running, and no enable when the primary group is not running.
C3_Case ==
    pre.admin_tools /\ pre.exists["admin_tools"] /\ ~PreRunning("admin_tools")

C3_EnableWhenDesired ==
    (op = "ensure_admin_tools_running_if_available" /\ C3_Case) =>
        /\ PreRunning("bench") =>
               /\ Count(log, "enable", "admin_tools") = 1
               /\ Count(log, "disable", "admin_tools") = 0
        /\ ~PreRunning("bench") => Count(log, "enable", "admin_tools") = 0

C3_Witness ==
    /\ op = "ensure_admin_tools_running_if_available"
    /\ C3_Case
    /\ PreRunning("bench")
    /\ Count(log, "enable", "admin_tools") = 1
    /\ exc = "none"

\* C4: a reconciliation pass (both checks) that follows a pass whose calls all
\* took effect, with nothing changed in between, issues no start, enable or
\* disable call.
C4_SecondPassIssuesNothing ==
    passes >= 2 => NoMutatingCall(log)

C4_Witness ==
    /\ passes >= 2
    /\ Count(prevLog, "start", "workers") = 1
    /\ Count(prevLog, "enable", "admin_tools") = 1
    /\ NoMutatingCall(log)

\* C5 (as stated): every completed construction of a Bench, also through
\* get_object with its default arguments, runs the workers check and the
\* admin-tools check exactly once each.
C5_BothChecksOnEveryConstruction ==
    (op = "construct" /\ exc = "none") =>
        /\ Count(log, "check", "workers") = 1
        /\ Count(log, "check", "admin_tools") = 1

\* C5 (amended): a completed construction runs the workers check once when
\* workers_check is true and not at all when it is false, and likewise the
\* admin-tools check for admin_tools_check; the constructor's defaults run
\* both checks once, get_object's defaults run neither.
C5_ChecksFollowFlags ==
    (op = "construct" /\ exc = "none") =>
        /\ Count(log, "check", "workers") = (IF args.workers_check THEN 1 ELSE 0)
        /\ Count(log, "check", "admin_tools") = (IF args.admin_tools_check THEN 1 ELSE 0)
        /\ args.via = "init_default" => (args.workers_check /\ args.admin_tools_check)
        /\ args.via = "get_object_default" =>
               (~args.workers_check /\ ~args.admin_tools_check)

C5_Witness ==
    /\ op = "construct"
    /\ exc = "none"
    /\ args.via = "get_object_default"
    /\ Count(log, "check", "workers") = 0
    /\ Count(log, "check", "admin_tools") = 0

C10_ProbeBounded ==
    (pc = "is_bench_created" /\ op = "is_bench_created") =>
        /\ probe.attempts <= probe.retry
        /\ Count(log, "exec", "frappe") = probe.attempts
        /\ probe.oks <= 1
        /\ probe.oks = 1 <=> probe.last = "200"
        /\ probe.result = "true" <=> probe.oks = 1
        /\ probe.result = "false" => probe.attempts = probe.retry
        /\ (probe.sleeps = probe.attempts /\ probe.attempts = probe.retry)
               => probe.result = "false"
        /\ (probe.sleeps = probe.attempts /\ probe.attempts < probe.retry)
               => probe.result = "pending"

C10_Witness ==
    /\ pc = "is_bench_created"
    /\ probe.retry = 3
    /\ probe.attempts = 3
    /\ probe.sleeps = 3
    /\ probe.result = "false"

Has(l, o, target, arg) ==
    \E i \in 1..Len(l) : l[i] = [op |-> o, target |-> target, arg |-> arg]

Entered(step) == \E i \in 1..Len(steps) : steps[i] = step

LastStep == IF steps = <<>> THEN "none" ELSE steps[Len(steps)]

C7_CertificateAfterProbe ==
    op = "create" =>
        /\ Entered("create:create_certificate") =>
               (probe.result = "true" /\ Entered("create:is_bench_created"))
        /\ Count(log, "generate_certificate", "certificate_manager") > 0 =>
               probe.result = "true"
        /\ (probe.result = "false" /\ probe.attempts = 0) =>
               /\ failed = "create:is_bench_created"
               /\ caught = Inactive
               /\ ~Entered("create:remove_attached_secrets")
               /\ ~Entered("create:create_certificate")
               /\ ~Entered("create:admin_tools")
               /\ Count(log, "remove_secrets_from_container", "bench") = 0
               /\ Count(log, "generate_certificate", "certificate_manager") = 0
               /\ Count(log, "enable", "admin_tools") = 0

C7_Witness ==
    /\ op = "create"
    /\ probe.result = "false"
    /\ probe.retry = DefaultRetry
    /\ failed = "create:is_bench_created"
    /\ pc = "handled"

\* what a step that returned has done, read from the calls it issued
StepDid(step) ==
    CASE step = "create:mkdir" ->
            Count(log, "mkdir", "path") = 1 /\ dir
      [] step = "create:generate_compose" ->
            /\ Before(log, "generate_compose", "bench", "write_to_file", "bench")
            /\ exists["bench"]
      [] step = "create:start_service" ->
            log = << [op |-> "start", target |-> "bench", arg |-> "force_recreate=True"] >>
      [] step = "create:frappe_logs_till_start" ->
            Count(log, "logs", "frappe") = 1
      [] step = "create:is_bench_created" ->
            /\ Has(log, "exec", "frappe", "curl")
            /\ probe.result = "true"
      [] step = "create:remove_attached_secrets" ->
            /\ Count(log, "remove_secrets_from_container", "bench") = 1
            /\ ~secrets
      [] step = "create:create_certificate" ->
            Count(log, "generate_certificate", "certificate_manager") = 1
      [] step = "create:admin_tools" ->
            IF admin_tools
            THEN Before(log, "generate_compose", "admin_tools", "enable", "admin_tools")
            ELSE NoMutatingCall(log) /\ Count(log, "generate_compose", "admin_tools") = 0
      [] step = "create:info" ->
            Count(log, "print", "info") = 1
      [] OTHER -> TRUE

\* C8: a create() that completes without exception has run, one after the
\* other: directory creation, descriptor generation and write, start of the
\* primary group with forced recreation, log-stream wait, readiness probe,
\* secret purge, certificate issuance, admin-tools configuration (when
\* desired), info report.
C8_CreationOrder ==
    op = "create" =>
        /\ ~args.is_template_bench =>
               \A i \in 1..Len(steps) : steps[i] = CreateOrder[i]
        /\ (steps # <<>> /\ failed = "none" /\ LastStep # "create:template"
                /\ pc = NextStep(LastStep)) =>
               StepDid(LastStep)
        /\ pc = "done" => Len(steps) = Len(CreateOrder) - 1

C8_Witness ==
    /\ op = "create"
    /\ pc = "done"
    /\ admin_tools
    /\ running(Env, "admin_tools")
    /\ ~secrets
    /\ Len(steps) = 12

\* ------------------------------------------------ claims C11 .. C20
\* C11: in is_bench_created every attempt that does not see the success
\* status, whether it raised or returned another response, is followed by
\* exactly one delay of `interval`.
C11_DelayAfterEveryFailure ==
    (pc = "is_bench_created" /\ op = "is_bench_created") =>
        probe.sleeps = probe.attempts - probe.oks

\* --------------------------------------- frappe_logs_till_start, alone
MaxLines == 3

\* the kinds of line the log stream of the frappe service can deliver
LineNames == {"plain", "sentinel", "SENTINEL", "text sentinel", "[== sentinel",
              "Updating files: sentinel", "[==", "exit_code"}

LogLine(name) ==
    CASE name = "plain" -> PlainLine
      [] name = "sentinel" -> SentinelLine
      [] name = "SENTINEL" -> Line("stdout", {"INFO SUPERVISORD STARTED WITH PID"})
      [] name = "text sentinel" -> Line("stdout", {"text", Sentinel})
      [] name = "[== sentinel" -> Line("stdout", {"[==", Sentinel})
      [] name = "Updating files: sentinel" -> Line("stdout", {"Updating files:", Sentinel})
      [] name = "[==" -> Line("stdout", {"[=="})
      [] OTHER -> Line("exit_code", {})

LogStream(names, open) ==
    [lines |-> [i \in 1..Len(names) |-> LogLine(names[i])], open |-> open]

\* the lines of the stream, each marked as taken from it by the wait or not
Reads(names, consumed) ==
    [i \in 1..Len(names) |->
        [op |-> IF i <= consumed THEN "read" ELSE "unread",
         target |-> "frappe", arg |-> names[i]]]

FrappeLogsTillStart ==
    /\ op = "none"
    /\ \E f \in 0..1, n \in 1..MaxLines, open \in BOOLEAN :
          \E names \in [1..n -> LineNames] :
             \E w \in {frappe_logs_till_start(
                          WithStream(World(<<>>, f), LogStream(names, open)))} :
                Run("frappe_logs_till_start",
                    [w EXCEPT !.log = @ \o Reads(names,
                        IF w.exc = "DockerException" THEN 0
                        ELSE read_until_stop(w.stream.lines, 1, w.quiet).consumed)])
    /\ UNCHANGED <<pc, probe, caught, failed, steps>>

LogsInit ==
    /\ EnvInit
    /\ \A g \in Groups : exists[g] /\ status[g] = AllServices(g, "running")
    /\ dir = TRUE
    /\ secrets = FALSE
    /\ quiet \in BOOLEAN
    /\ site_conf = "a"
    /\ supervisor_conf = "a"
    /\ workers_compose = "a"
    /\ CertInit
    /\ pc = "idle"
    /\ pre = Env

LogsNext == FrappeLogsTillStart

SpecLogs == LogsInit /\ [][LogsNext]_vars

StreamLines == SelectSeq(log, LAMBDA e : e.op \in {"read", "unread"})

HasSentinel(name) == ContainsLower(LogLine(name), Sentinel)

\* C12: frappe_logs_till_start returns upon the first streamed line that
\* contains the sentinel 'INFO supervisord started with pid', compared
\* case-insensitively, whatever else the line contains, and takes no further
\* line from the stream.
C12_StopsAtFirstSentinelLine ==
    (op = "frappe_logs_till_start" /\ exc # "DockerException") =>
        \A i \in 1..Len(StreamLines) :
            (/\ HasSentinel(StreamLines[i].arg)
             /\ \A j \in 1..(i - 1) : ~HasSentinel(StreamLines[j].arg)) =>
                /\ StreamLines[i].op = "read"
                /\ \A j \in (i + 1)..Len(StreamLines) : StreamLines[j].op = "unread"
                /\ exc = "none"

\* ------------------------------------------- sync_workers_compose, alone
\* the call itself, with its argument, heads the calls it issues
Called(name, arg) == << [op |-> "call", target |-> name, arg |-> arg] >>

SyncWorkersCompose ==
    /\ op \in {"none", "sync_workers_compose"}
    /\ passes < MaxPasses
    /\ \E f \in 0..6, force_recreate \in BOOLEAN :
          \E w \in {sync_workers_compose(
                       World(Called("sync_workers_compose", ForceArg(force_recreate)), f),
                       force_recreate)} :
             /\ Commit(w)
             /\ steps' = Append(steps, IF Raised(w) THEN "raised" ELSE "returned")
    /\ op' = "sync_workers_compose"
    /\ passes' = passes + 1
    /\ pre' = Env
    /\ prevLog' = log
    /\ UNCHANGED <<args, pc, probe, caught, failed>>

\* the worker configuration of the site is edited between two calls
ChangeWorkersConfiguration ==
    /\ op = "sync_workers_compose"
    /\ passes < MaxPasses
    /\ steps[Len(steps)] # "change"
    /\ \E conf \in Confs \ {site_conf} : site_conf' = conf
    /\ steps' = Append(steps, "change")
    /\ UNCHANGED <<admin_tools, dir, exists, status, secrets, quiet,
                   supervisor_conf, workers_compose, ssl, has_cert, certificate, db,
                   probe,
                   caught, failed, log, exc, op, args, pre, passes, prevLog, pc>>

SyncInit ==
    /\ EnvInit
    /\ exists["bench"]
    /\ ~exists["admin_tools"]
    /\ ~admin_tools
    /\ dir = TRUE
    /\ secrets = FALSE
    /\ quiet = FALSE
    /\ WorkersInit
    /\ CertInit
    /\ pc = "idle"
    /\ pre = Env

SyncNext == SyncWorkersCompose \/ ChangeWorkersConfiguration

SpecSync == SyncInit /\ [][SyncNext]_vars

\* the last two events are calls, and the first of the two returned
SecondCallInARow ==
    /\ op = "sync_workers_compose"
    /\ Len(steps) >= 2
    /\ steps[Len(steps) - 1] = "returned"
    /\ steps[Len(steps)] \in {"returned", "raised"}

\* C13: a sync_workers_compose that follows a completed one with no
\* configuration change in between issues no start of the workers group and
\* no regeneration of the workers descriptor, and reports the configuration
\* unchanged when it returns.
C13_SecondSyncIsNoOp ==
    SecondCallInARow =>
        /\ Count(log, "start", "workers") = 0
        /\ Count(log, "generate_compose", "workers") = 0
        /\ exc = "none" =>
               Has(log, "print", "workers", "Workers configuration remains unchanged.")

C13_Witness ==
    /\ SecondCallInARow
    /\ exc = "none"
    /\ Count(prevLog, "start", "workers") = 1
    /\ Count(log, "exec", "frappe") = 2

\* C14: every sync_workers_compose takes the snapshot of the supervisor
\* configuration first, before either regeneration command is executed.
C14_SnapshotBeforeRegeneration ==
    op = "sync_workers_compose" =>
        /\ Len(log) >= 2
        /\ log[2].op = "backup" /\ log[2].target = "supervisor.conf"
        /\ Count(log, "exec", "frappe") > 0 =>
               Before(log, "backup", "supervisor.conf", "exec", "frappe")
        /\ (Count(log, "exec", "frappe") > 0 /\ pre.supervisor_conf # "none") =>
               Before(log, "backup", "fm.supervisor.conf", "exec", "frappe")

C14_Witness ==
    /\ op = "sync_workers_compose"
    /\ pre.supervisor_conf # "none"
    /\ Count(log, "exec", "frappe") = 2
    /\ Count(log, "backup", "fm.supervisor.conf") = 1
    /\ exc = "none"

\* the site-builder regeneration was run and failed (the splitting step was
\* then never run), or the splitting step was run and failed
RegenerationFailed ==
    /\ op = "sync_workers_compose"
    /\ \/ Count(log, "exec", "frappe") = 1
       \/ /\ Count(log, "exec", "frappe") = 2
          /\ log[Len(log)].op = "exec"
          /\ exc # "none"

\* C15: when a regeneration command fails, sync_workers_compose raises
\* BenchWorkersSupervisorConfigurtionGenerateError, neither regenerates the
\* workers descriptor nor starts the workers group, and restores no snapshot.
C15_RegenerationFailureRaises ==
    RegenerationFailed =>
        /\ exc = "BenchWorkersSupervisorConfigurtionGenerateError"
        /\ Count(log, "generate_compose", "workers") = 0
        /\ Count(log, "start", "workers") = 0
        /\ \A i \in 1..Len(log) : log[i].op # "restore"
        /\ workers_compose = pre.workers_compose
        /\ status = pre.status

C15_Witness ==
    /\ RegenerationFailed
    /\ Count(log, "exec", "frappe") = 2
    /\ pre.site_conf # pre.workers_compose

\* the regenerated configuration is not the one materialized in the descriptor
PreChanged == ~(pre.exists["workers"] /\ pre.site_conf = pre.workers_compose)

\* C16: when the regenerated worker configuration differs from the
\* materialized one, sync_workers_compose(force_recreate) regenerates the
\* workers descriptor and then starts the workers group exactly once, with
\* the force-recreate flag it was called with.
C16_ChangedConfigurationRestarts ==
    (op = "sync_workers_compose" /\ PreChanged) =>
        /\ Count(log, "start", "workers") <= 1
        /\ Count(log, "generate_compose", "workers") <= 1
        /\ Count(log, "start", "workers") = 1 =>
               /\ Before(log, "generate_compose", "workers", "start", "workers")
               /\ log[FirstIndex(log, "start", "workers")].arg = log[1].arg
        /\ exc = "none" =>
               /\ Count(log, "start", "workers") = 1
               /\ workers_compose = pre.site_conf
               /\ exists["workers"]
               /\ running(Env, "workers")

C16_Witness ==
    /\ op = "sync_workers_compose"
    /\ PreChanged
    /\ pre.exists["workers"]
    /\ exc = "none"
    /\ log[1].arg = ForceArg(TRUE)
    /\ Has(log, "start", "workers", ForceArg(TRUE))

\* --------------------------------------------------- certificates, alone
CreateCertificateCall ==
    /\ \E f \in 0..2 :
          \E w \in {create_certificate(World(Called("create_certificate", ""), f))} :
             Run("create_certificate", w)
    /\ UNCHANGED <<pc, probe, caught, failed, steps>>

UpdateCertificate ==
    /\ \E f \in 0..2, certificate_type \in SslTypes :
          \E w \in {update_certificate(
                       World(Called("update_certificate", certificate_type), f),
                       certificate_type)} :
             Run("update_certificate", w)
    /\ UNCHANGED <<pc, probe, caught, failed, steps>>

RemoveCertificate ==
    /\ \E f \in 0..2 :
          \E w \in {remove_certificate(World(Called("remove_certificate", ""), f))} :
             Run("remove_certificate", w)
    /\ UNCHANGED <<pc, probe, caught, failed, steps>>

RenewCertificate ==
    /\ \E f \in 0..1 :
          \E w \in {renew_certificate(World(Called("renew_certificate", ""), f))} :
             Run("renew_certificate", w)
    /\ UNCHANGED <<pc, probe, caught, failed, steps>>

\* a bench object as constructed: the certificate manager holds
\* bench_config.ssl, and a certificate exists only for an issued type
CertificateInit ==
    /\ EnvInit
    /\ ~admin_tools
    /\ exists = [g \in Groups |-> g = "bench"]
    /\ status["bench"]["frappe"] = "running"
    /\ dir = TRUE
    /\ secrets = FALSE
    /\ quiet = FALSE
    /\ site_conf = "a"
    /\ supervisor_conf = "none"
    /\ workers_compose = "none"
    /\ ssl \in SslTypes
    /\ has_cert \in BOOLEAN
    /\ has_cert => ssl # "none"
    /\ certificate = ssl
    /\ db = [info |-> TRUE, name |-> TRUE, user |-> TRUE]
    /\ pc = "idle"
    /\ pre = Env

CertificateNext ==
    \/ CreateCertificateCall
    \/ UpdateCertificate
    \/ RemoveCertificate
    \/ RenewCertificate

SpecCertificate == CertificateInit /\ [][CertificateNext]_vars

CalledWith(l, name, arg) == l # <<>> /\ l[1] = Called(name, arg)[1]

\* the environment is as the operation found it, and nothing was called
NoSideEffect ==
    /\ Len(log) = 1
    /\ Env = pre

\* C17: update_certificate rejects without side effects: an issue request
\* while has_certificate() is true raises BenchSSLCertificateAlreadyIssued,
\* a request for none while has_certificate() is false raises
\* BenchSSLCertificateNotIssued; in both cases nothing is issued or revoked
\* and the bench config is neither changed nor saved.
C17_RejectsWithoutSideEffects ==
    /\ (CalledWith(log, "update_certificate", "le") /\ pre.has_cert) =>
          /\ exc = "BenchSSLCertificateAlreadyIssued"
          /\ NoSideEffect
    /\ (CalledWith(log, "update_certificate", "none") /\ ~pre.has_cert) =>
          /\ exc = "BenchSSLCertificateNotIssued"
          /\ NoSideEffect

\* two issue requests in a row, the first of which issued the certificate
C17_Witness ==
    /\ CalledWith(prevLog, "update_certificate", "le")
    /\ Count(prevLog, "export_to_toml", "bench_config") = 1
    /\ CalledWith(log, "update_certificate", "le")
    /\ exc = "BenchSSLCertificateAlreadyIssued"

\* C18: after update_certificate(none) has returned on a bench that had a
\* certificate, the certificate was revoked, has_certificate() is false,
\* bench_config.ssl is of type none, and that config was saved.
C18_RemovalResetsAndPersists ==
    (CalledWith(log, "update_certificate", "none") /\ pre.has_cert /\ exc = "none") =>
        /\ Count(log, "remove_certificate", "certificate_manager") = 1
        /\ ~has_cert
        /\ ssl = "none"
        /\ Before(log, "remove_certificate", "certificate_manager",
                  "export_to_toml", "bench_config")
        /\ log[Len(log)] = [op |-> "export_to_toml", target |-> "bench_config",
                            arg |-> "none"]

C18_Witness ==
    /\ CalledWith(log, "update_certificate", "none")
    /\ pre.has_cert
    /\ pre.ssl = "le"
    /\ exc = "none"
    /\ ~has_cert

\* C19: update_certificate with a certificate of an issued type on a bench
\* without certificate asks the certificate manager to issue the requested
\* certificate exactly once, and then saves the bench config with
\* bench_config.ssl equal to the requested certificate.
C19_IssuesOnceThenPersists ==
    (CalledWith(log, "update_certificate", "le") /\ ~pre.has_cert) =>
        /\ Count(log, "generate_certificate", "certificate_manager") = 1
        /\ Has(log, "generate_certificate", "certificate_manager", "le")
        /\ Count(log, "export_to_toml", "bench_config") <= 1
        /\ exc = "none" =>
              /\ has_cert
              /\ ssl = "le"
              /\ Before(log, "generate_certificate", "certificate_manager",
                        "export_to_toml", "bench_config")
              /\ log[Len(log)] = [op |-> "export_to_toml", target |-> "bench_config",
                                  arg |-> "le"]

C19_Witness ==
    /\ CalledWith(log, "update_certificate", "le")
    /\ ~pre.has_cert
    /\ pre.ssl = "none"
    /\ exc = "none"
    /\ has_cert

\* C20: has_certificate() being true and bench_config.ssl being of type none
\* never hold together, whatever sequence of create_certificate,
\* update_certificate, remove_certificate and renew_certificate calls was
\* made, failed calls included.
C20_CertificateExclusive == ~(has_cert /\ ssl = "none")

\* ------------------------------------------------ claims C21 .. C30
PreNginxRunning == pre.status["bench"]["nginx"] = "running"

\* C21: renew_certificate calls the certificate manager's renew exactly when
\* the nginx service is running and a certificate exists.  Otherwise it calls
\* nothing and raises BenchServiceNotRunning when nginx is down (also when
\* the certificate is missing as well), BenchSSLCertificateNotIssued when
\* nginx runs and there is no certificate.
C21_RenewPreconditions ==
    CalledWith(log, "renew_certificate", "") =>
        /\ Count(log, "renew_certificate", "certificate_manager") =
               (IF PreNginxRunning /\ pre.has_cert THEN 1 ELSE 0)
        /\ ~PreNginxRunning =>
               (exc = "BenchServiceNotRunning" /\ NoSideEffect)
        /\ (PreNginxRunning /\ ~pre.has_cert) =>
               (exc = "BenchSSLCertificateNotIssued" /\ NoSideEffect)
        /\ (PreNginxRunning /\ pre.has_cert) =>
               exc \in {"none", "Exception"}

C21_Witness ==
    /\ CalledWith(log, "renew_certificate", "")
    /\ ~PreNginxRunning
    /\ ~pre.has_cert
    /\ exc = "BenchServiceNotRunning"

\* ------------------------------------------------------- removal, alone
RemoveContainersAndDirs ==
    /\ op = "none"
    /\ \E f \in 0..MaxFail, rm \in RmOutcomes, frappe_image \in BOOLEAN :
          \E w \in {remove_containers_and_dirs(
                       WithOracle(World(Called("remove_containers_and_dirs", ""), f),
                                  "yes", rm, frappe_image))} :
             Run("remove_containers_and_dirs", w)
    /\ UNCHANGED <<pc, probe, caught, failed, steps>>

RemoveDatabaseAndUser ==
    /\ op = "none"
    /\ \E f \in 0..3 :
          \E w \in {remove_database_and_user(
                       World(Called("remove_database_and_user", ""), f))} :
             Run("remove_database_and_user", w)
    /\ UNCHANGED <<pc, probe, caught, failed, steps>>

RemoveBench ==
    /\ op = "none"
    /\ \E f \in 0..MaxFail, default_choice \in BOOLEAN, answer \in Answers,
          rm \in RmOutcomes, frappe_image \in BOOLEAN :
          \E w \in {remove_bench(
                       WithOracle(World(Called("remove_bench",
                                               IF default_choice THEN "default_choice=True"
                                               ELSE "default_choice=False"), f),
                                  answer, rm, frappe_image),
                       default_choice)} :
             Run("remove_bench",
                 IF Raised(w) THEN w
                 ELSE Call(w, "return", "remove_bench",
                           IF w.ret THEN "True" ELSE "False"))
    /\ UNCHANGED <<pc, probe, caught, failed, steps>>

\* a bench on disk, complete or partly created; the containers of the
\* projects that have a descriptor are up
RemoveInit ==
    /\ EnvInit
    /\ ~admin_tools
    /\ \A g \in Groups : exists[g] => status[g] = AllServices(g, "running")
    /\ dir = TRUE
    /\ secrets = FALSE
    /\ quiet = FALSE
    /\ site_conf = "a"
    /\ supervisor_conf = "none"
    /\ workers_compose = (IF exists["workers"] THEN "a" ELSE "none")
    /\ ssl \in SslTypes
    /\ has_cert = (ssl # "none")
    /\ certificate = ssl
    /\ db \in [info : BOOLEAN, name : BOOLEAN, user : BOOLEAN]
    /\ pc = "idle"
    /\ pre = Env

RemoveNext == RemoveContainersAndDirs \/ RemoveDatabaseAndUser \/ RemoveBench

SpecRemove == RemoveInit /\ [][RemoveNext]_vars

\* the calls of the log that tear a project down or warn of its absence
Visits == SelectSeq(log, LAMBDA e : e.op \in {"down", "warning"} /\ e.target \in Groups)

GroupOrder == << "bench", "workers", "admin_tools" >>

\* the three projects have been gone through: the directory removal is reached
TeardownDone == Count(log, "rmtree", "path") > 0

\* C22: remove_containers_and_dirs goes through the primary, the workers and
\* the admin-tools project in that order, tears down (orphans and volumes
\* removed) exactly those whose descriptor exists, warns once for each absent
\* one and raises nothing for an absence; with the primary descriptor alone
\* it issues one tear-down and two warnings.
C22_TeardownVisitsInOrder ==
    op = "remove_containers_and_dirs" =>
        /\ Len(Visits) <= 3
        /\ \A i \in 1..Len(Visits) :
              /\ Visits[i].target = GroupOrder[i]
              /\ Visits[i].op = (IF pre.exists[GroupOrder[i]] THEN "down" ELSE "warning")
              /\ Visits[i].op = "down" =>
                     Visits[i].arg = "remove_ophans=True, volumes=True"
        /\ TeardownDone => Len(Visits) = 3
        /\ (Len(Visits) < 3) =>
              /\ exc = "DockerException"
              /\ Visits # <<>>
              /\ Visits[Len(Visits)].op = "down"
        /\ (TeardownDone /\ pre.exists = [g \in Groups |-> g = "bench"]) =>
              /\ Count(log, "down", "bench") = 1
              /\ Count(log, "warning", "workers") = 1
              /\ Count(log, "warning", "admin_tools") = 1
              /\ Count(log, "down", "workers") + Count(log, "down", "admin_tools") = 0

C22_Witness ==
    /\ op = "remove_containers_and_dirs"
    /\ pre.exists = [g \in Groups |-> g = "bench"]
    /\ exc = "none"
    /\ ~dir
    /\ Len(Visits) = 3

PermissionDenied == Has(log, "rmtree", "path", "PermissionError")

\* C23: when the recursive delete fails with a permission error, the
\* privilege-fix command is run once and the delete retried once;
\* remove_containers_and_dirs returns normally only when the bench directory
\* has been deleted, and raises BenchRemoveDirectoryError in every other case.
C23_PermissionRecovery ==
    (op = "remove_containers_and_dirs" /\ PermissionDenied) =>
        /\ Count(log, "run", "docker") <= 1
        /\ Count(log, "rmtree", "path") <= 2
        /\ exc = "none" => ~dir
        /\ exc # "none" => exc = "BenchRemoveDirectoryError"

\* the database and its user are dealt with
DbCalls == {"remove_db", "remove_user"}

\* C24: in remove_bench the database and its user are de-provisioned before
\* any tear-down of containers is issued; a database or a user that is
\* already absent gives a warning and the removal goes on.
C24_DatabaseBeforeTeardown ==
    (op = "remove_bench" /\ Has(log, "answer", "remove_bench", "yes")) =>
        /\ \A i, j \in 1..Len(log) :
              (log[i].op = "down" /\ (log[j].op \in DbCalls
                                      \/ log[j].target \in {"db", "db_user"}))
                  => j < i
        /\ \A i \in 1..Len(log) : log[i].op = "down" =>
              /\ Count(log, "get_db_connection_info", "bench") = 1
              /\ pre.db.info =>
                    /\ Count(log, "remove_db", "db") + Count(log, "warning", "db") = 1
                    /\ Count(log, "remove_user", "db_user")
                           + Count(log, "warning", "db_user") = 1
                    /\ ~db.name /\ ~db.user
        /\ (pre.db.info /\ ~pre.db.name /\ Has(log, "get_db_connection_info", "bench", "")
                /\ FirstIndex(log, "get_db_connection_info", "bench") < Len(log)) =>
              /\ Count(log, "warning", "db") = 1
              /\ Count(log, "remove_db", "db") = 0
              /\ log[Len(log)].target # "db"
        /\ (pre.db.info /\ ~pre.db.user /\ Count(log, "remove_user", "db_user") = 0
                /\ TeardownDone) =>
              Count(log, "warning", "db_user") = 1

C24_Witness ==
    /\ op = "remove_bench"
    /\ pre.db.info /\ ~pre.db.name /\ pre.db.user
    /\ pre.exists["bench"]
    /\ exc = "none"
    /\ ~dir
    /\ Count(log, "warning", "db") = 1
    /\ Count(log, "remove_user", "db_user") = 1

\* ------------------------------------- the operations of a created bench
Start ==
    /\ op = "none"
    /\ \E f \in 0..MaxFail, force \in BOOLEAN, stream \in Streams :
          \E w \in {start(WithStream(World(Called("start", ForceArg(force)), f), stream),
                          force)} :
             Run("start", w)
    /\ UNCHANGED <<pc, probe, caught, failed, steps>>

Stop ==
    /\ op = "none"
    /\ \E f \in 0..3 :
          \E w \in {stop(World(Called("stop", ""), f))} : Run("stop", w)
    /\ UNCHANGED <<pc, probe, caught, failed, steps>>

Info ==
    /\ op = "none"
    /\ \E f \in 0..1 :
          \E w \in {info(World(Called("info", ""), f))} : Run("info", w)
    /\ UNCHANGED <<pc, probe, caught, failed, steps>>

\* a bench that was created: its directory and its primary descriptor are
\* there; the workers and admin-tools descriptors may be missing
OperateInit ==
    /\ EnvInit
    /\ exists["bench"]
    /\ dir = TRUE
    /\ secrets = FALSE
    /\ quiet = FALSE
    /\ site_conf = "a"
    /\ supervisor_conf \in {"a", "none"}
    /\ workers_compose = (IF exists["workers"] THEN "a" ELSE "none")
    /\ CertInit
    /\ pc = "idle"
    /\ pre = Env

OperateNext ==
    \/ Start
    \/ Stop
    \/ Info
    \/ RemoveAttachedSecrets
    \/ RemoveContainersAndDirs
    \/ SyncWorkersCompose
    \/ EnsureWorkers
    \/ EnsureAdminTools

SpecOperate == OperateInit /\ [][OperateNext]_vars

\* the calls that act on, or ask for, the containers of a project
RuntimeOps == {"start", "stop", "down", "status?", "running?", "enable", "disable"}

Dependents == {"workers", "admin_tools"}

\* the descriptor of project g is there when the i-th call of the run is made
ExistsAt(g, i) ==
    \/ pre.exists[g]
    \/ \E j \in 1..(i - 1) : log[j].op = "generate_compose" /\ log[j].target = g

\* C25: in start, stop, teardown, the reconciliation checks, the secrets
\* purge and info, no start, stop, tear-down or running-status query is
\* issued against the workers or the admin-tools project while its
\* descriptor is absent.
C25_AbsentDescriptorIsSkipped ==
    \A i \in 1..Len(log) :
        (log[i].op \in RuntimeOps /\ log[i].target \in Dependents)
            => ExistsAt(log[i].target, i)

\* the primary group runs when the i-th call of the run is made: its last
\* start, stop or tear-down before that call was a start, or there was none
\* and it ran when the operation was called
PrimaryRunningAt(i) ==
    LET js == {j \in 1..(i - 1) :
                  log[j].target = "bench" /\ log[j].op \in {"start", "stop", "down"}}
    IN  IF js = {} THEN PreRunning("bench")
        ELSE log[CHOOSE j \in js : \A k \in js : k <= j].op = "start"

\* C26: in start, remove_attached_secrets, sync_workers_compose and the
\* reconciliation checks, the workers and the admin-tools group are started
\* only at a point where the primary group is running.
C26_PrimaryBeforeDependents ==
    \A i \in 1..Len(log) :
        (log[i].op \in {"start", "enable"} /\ log[i].target \in Dependents)
            => PrimaryRunningAt(i)

\* C29: start() does not start the admin-tools group of a bench whose
\* configuration has admin tools disabled, whether or not the admin-tools
\* descriptor exists.
C29_StartRespectsDesiredState ==
    (op = "start" /\ ~pre.admin_tools) => Count(log, "start", "admin_tools") = 0

\* ------------------------------------------- rollback after a failed sync
\* the caller of a failed sync_workers_compose restores the BackupSet
BackupRestoreWorkersSupervisor ==
    /\ op = "sync_workers_compose"
    /\ exc = "BenchWorkersSupervisorConfigurtionGenerateError"
    /\ \E f \in 0..2 :
          \E w \in {backup_restore_workers_supervisor(
                       World(Called("backup_restore_workers_supervisor", ""), f),
                       backups(World(<<>>, 0)))} :
             Run("backup_restore_workers_supervisor", w)
    /\ UNCHANGED <<pc, probe, caught, failed, steps>>

RollbackNext == SyncNext \/ BackupRestoreWorkersSupervisor

SpecRollback == SyncInit /\ [][RollbackNext]_vars

Restores == SelectSeq(log, LAMBDA e : e.op = "restore")

\* the place of a snapshot in the order the snapshots were taken
TakenAt(name) == CHOOSE i \in 1..Len(Taken(pre)) : Taken(pre)[i] = name

AdminToolsCalls ==
    << Count(log, "generate_compose", "admin_tools"),
       Count(log, "enable", "admin_tools"),
       IF Has(log, "exec", "frappe", "supervisorctl restart all") THEN 1 ELSE 0 >>

\* C28: during create() the admin-tools descriptor is generated, the admin
\* tools are enabled and the frappe server is restarted if and only if
\* bench_config.admin_tools is true; when it is false none of the three is
\* performed and the final info reports the admin tools as 'Not Enabled'.
C28_AdminToolsOnlyIfDesired ==
    op = "create" =>
        /\ ~admin_tools => AdminToolsCalls = <<0, 0, 0>>
        /\ (LastStep = "create:admin_tools" /\ ~admin_tools) => pc = "create:info"
        /\ (LastStep = "create:admin_tools" /\ admin_tools
                /\ pc \in {"create:info", "create:except", "left"}) =>
              /\ Count(log, "generate_compose", "admin_tools") = 1
              /\ pc = "create:info" =>
                    /\ AdminToolsCalls = <<1, 1, 1>>
                    /\ Has(log, "enable", "admin_tools", "force_recreate_container=True")
                    /\ Before(log, "generate_compose", "admin_tools", "enable", "admin_tools")
                    /\ Before(log, "enable", "admin_tools", "exec", "frappe")
        /\ (LastStep = "create:info" /\ pc = "create:save_bench_config") =>
              Has(log, "print", "info",
                  IF admin_tools THEN "Admin Tools: Mailhog, Adminer"
                  ELSE "Admin Tools: Not Enabled")

C28_Witness ==
    /\ op = "create"
    /\ ~admin_tools
    /\ LastStep = "create:info"
    /\ pc = "create:save_bench_config"
    /\ Has(log, "print", "info", "Admin Tools: Not Enabled")
    /\ ~exists["admin_tools"]

\* C30: after an update_certificate or a remove_certificate call that
\* returns normally, whatever calls came before it, the certificate held by
\* the certificate manager is the one of bench_config.ssl.
C30_ManagerHoldsConfiguredCertificate ==
    (op \in {"update_certificate", "remove_certificate"} /\ exc = "none")
        => certificate = ssl

\* ------------------------------------------------ claims C31 .. C32
Declined == op = "remove_bench" /\ Has(log, "answer", "remove_bench", "no")

\* C31: when the answer to the confirmation of remove_bench is 'no',
\* remove_bench returns False and changes nothing: it removes no
\* certificate, no database, no user, no container and no directory, and it
\* neither modifies nor saves the bench configuration.
C31_DeclinedRemovalChangesNothing ==
    Declined =>
        /\ exc = "none"
        /\ Has(log, "return", "remove_bench", "False")
        /\ Env = pre
        /\ Len(log) = 4
        /\ \A i \in 1..Len(log) :
              log[i].op \in {"call", "prompt_ask", "answer", "return"}

C31_Witness ==
    /\ Declined
    /\ pre.has_cert
    /\ pre.db.name
    /\ pre.exists["bench"]
    /\ dir /\ has_cert /\ db.name
    /\ Has(log, "return", "remove_bench", "False")

\* C32: frappe_logs_till_start returns normally only after a line holding
\* the sentinel has been taken from the log stream; a stream that ends
\* without such a line does not make the wait report completion.
C32_ReturnsOnlyAfterSentinel ==
    (op = "frappe_logs_till_start" /\ exc = "none") =>
        \E i \in 1..Len(StreamLines) :
            StreamLines[i].op = "read" /\ HasSentinel(StreamLines[i].arg)

====
